---- MODULE Spec2Model ----
(***************************************************************************)
(* Signaling relay of multi-device-cctv.  Two variants of the relay are    *)
(* modelled side by side; the variable `variant` selects which one runs:   *)
(*   "A"  src/unnamed/part_000  (streamer-join / viewer-join / streamer-*  *)
(*        / viewer-* messages, registry `streams`)                         *)
(*   "B"  src/server.js         (identify / offer / answer / candidate /   *)
(*        leave messages, registry `streamers`)                            *)
(* Node runs one handler to completion before the next event, so every     *)
(* handler (message, close, sweep tick) is one atomic action.              *)
(*                                                                         *)
(* Modelling decisions:                                                    *)
(*  - A connection is one of Conns; in variant A ws.id (a uuid given at    *)
(*    connect time) is the connection itself.                              *)
(*  - uuidv4() is a counter: every call returns a value never returned     *)
(*    before.  A client can name any identifier already handed out, or one *)
(*    of ClientIds (names of its own invention, negative numbers), never a *)
(*    uuid of the future.                                                  *)
(*  - readyState is "NONE" before the connection is accepted, "OPEN",      *)
(*    "CLOSING" when the transport is no longer open and the close event   *)
(*    has not been handled yet, "CLOSED" once the close handler has run.   *)
(*  - Message events are delivered for connections whose transport is      *)
(*    open.                                                                *)
(*  - A JS Map is a function on its key set.  Loops over a Map visit the   *)
(*    keys in ascending order; no property below depends on the relative   *)
(*    order of deliveries made by one loop.                                *)
(*  - njoin is not program state: it counts the join messages handled, so  *)
(*    that a run is bounded by MaxJoins of them.                           *)
(*  - `ev` is the event handled last and `sent` the messages that handler  *)
(*    passed to ws.send, in order.                                         *)
(*  - `used` is the set of keys the registry has ever held, `joined` the   *)
(*    set of connections that have completed a join, `forced` the set of   *)
(*    connections a streamer's close handler has closed and whose own      *)
(*    close event is still to come.                                        *)
(*  - A message is the text of a JSON object, the JSON text null, or not   *)
(*    JSON at all.                                                         *)
(***************************************************************************)
EXTENDS Integers, Sequences, FiniteSets, TLC

\* ---------------------------------------------------------------- bounds
NumConns == 2
MaxUuid == 2
NumClientIds == 1
NumPayloads == 2
MaxJoins == 3

Conns == 1..NumConns
ClientIds == {0 - k : k \in 1..NumClientIds}
Payloads == 1..NumPayloads

\* null / undefined: no identifier, no connection, no payload
NoId == 0

VARIABLES variant, readyState, role, streamId, viewerId, streams, uuid, ev, sent, njoin,
          used, joined, forced

vars == <<variant, readyState, role, streamId, viewerId, streams, uuid, ev, sent, njoin,
          used, joined, forced>>

\* ------------------------------------------------------------ Map helpers
EmptyMap == [k \in {} |-> NoId]

MapSet(m, k, v) == [x \in (DOMAIN m) \cup {k} |-> IF x = k THEN v ELSE m[x]]

MapDelete(m, k) == [x \in (DOMAIN m) \ {k} |-> m[x]]

MapValues(m) == {m[k] : k \in DOMAIN m}

RECURSIVE Keys(_)
Keys(S) ==
  IF S = {} THEN <<>>
  ELSE LET k == CHOOSE x \in S : \A y \in S : x <= y
       IN  <<k>> \o Keys(S \ {k})

\* the identifiers handed out by uuidv4() so far
Issued == 1..(uuid - 1)

\* what a client can put in a message field that names a stream or a viewer
Nameable == Issued \cup ClientIds

\* ---------------------------------------------------------------- messages
Msg(to, type, sid, vid, count, data) ==
  [to |-> to, type |-> type, streamId |-> sid, viewerId |-> vid,
   viewerCount |-> count, data |-> data]

\* an event: its kind, the connection it is for, and for a message the role,
\* streamId and payload fields it carries
Event(kind, c, r, sid, data) ==
  [kind |-> kind, conn |-> c, role |-> r, streamId |-> sid, data |-> data]

IsOpen(c) == readyState[c] = "OPEN"

\* ws.on("message") fires for c with a join (streamer-join, viewer-join,
\* identify): its transport is open.  njoin counts the joins handled so far
\* and bounds the run at MaxJoins of them.
ReceiveJoin(c) ==
  /\ readyState[c] = "OPEN"
  /\ njoin < MaxJoins
  /\ njoin' = njoin + 1

\* ws.on("message") fires for c with any other message
Receive(c) ==
  /\ readyState[c] = "OPEN"
  /\ UNCHANGED njoin

\* ws.close() called by the relay: an open transport starts closing, its
\* close event comes later; on any other transport it does nothing
CloseConn(rs, c) == IF rs[c] = "OPEN" THEN [rs EXCEPT ![c] = "CLOSING"] ELSE rs

NewStream(c) == [streamer |-> c, viewers |-> EmptyMap]

\* -------------------------------------------------------------------- Init
Init ==
  /\ variant \in {"A", "B"}
  /\ readyState = [c \in Conns |-> "NONE"]
  /\ role = [c \in Conns |-> "none"]
  /\ streamId = [c \in Conns |-> NoId]
  /\ viewerId = [c \in Conns |-> NoId]
  /\ streams = EmptyMap
  /\ uuid = 1
  /\ ev = Event("init", NoId, "none", NoId, NoId)
  /\ sent = <<>>
  /\ njoin = 0
  /\ used = {}
  /\ joined = {}
  /\ forced = {}

\* wss.on("connection"): the connection starts Unassigned.  Connections are
\* numbered in the order they are accepted.
Connect(c) ==
  /\ readyState[c] = "NONE"
  /\ \A d \in Conns : d < c => readyState[d] # "NONE"
  /\ readyState' = [readyState EXCEPT ![c] = "OPEN"]
  /\ role' = [role EXCEPT ![c] = "none"]
  /\ streamId' = [streamId EXCEPT ![c] = NoId]
  /\ viewerId' = [viewerId EXCEPT ![c] = NoId]
  /\ ev' = Event("connect", c, "none", NoId, NoId)
  /\ sent' = <<>>
  /\ UNCHANGED <<variant, streams, uuid, njoin, used, joined, forced>>

\* the peer goes away (close frame, reset, partition): the transport is no
\* longer open; the close handler runs as a later event
TransportDrop(c) ==
  /\ readyState[c] = "OPEN"
  /\ readyState' = [readyState EXCEPT ![c] = "CLOSING"]
  /\ ev' = Event("drop", c, "none", NoId, NoId)
  /\ sent' = <<>>
  /\ UNCHANGED <<variant, role, streamId, viewerId, streams, uuid, njoin, used, joined, forced>>

\* =====================================================================
\* Variant A: src/unnamed/part_000
\* =====================================================================

\* case "streamer-join": no check of the connection's current role
StreamerJoin(c) ==
  /\ variant = "A"
  /\ ReceiveJoin(c)
  /\ uuid <= MaxUuid
  /\ LET sid == uuid IN
       /\ uuid' = uuid + 1
       /\ role' = [role EXCEPT ![c] = "streamer"]
       /\ streamId' = [streamId EXCEPT ![c] = sid]
       /\ streams' = MapSet(streams, sid, NewStream(c))
       /\ used' = used \cup {sid}
       /\ joined' = joined \cup {c}
       /\ sent' = <<Msg(c, "stream-info", sid, NoId, NoId, NoId)>>
       /\ ev' = Event("streamer-join", c, "none", sid, NoId)
  /\ UNCHANGED <<variant, readyState, viewerId, forced>>

\* ViewerJoinStreams with a missing stream created on demand instead of
\* being refused
ViewerJoinStreams_CreateMissing(c, sid) ==
  IF sid \notin DOMAIN streams THEN MapSet(streams, sid, NewStream(c))
  ELSE IF ~IsOpen(streams[sid].streamer) THEN MapDelete(streams, sid)
  ELSE [streams EXCEPT ![sid].viewers = MapSet(@, c, c)]

\* the registry after case "viewer-join" for data.streamId = sid
ViewerJoinStreams(c, sid) ==
  IF sid \notin DOMAIN streams THEN streams
  ELSE IF ~IsOpen(streams[sid].streamer) THEN MapDelete(streams, sid)
  ELSE [streams EXCEPT ![sid].viewers = MapSet(@, c, c)]

\* case "viewer-join"
ViewerJoin(c, sid) ==
  /\ variant = "A"
  /\ ReceiveJoin(c)
  /\ streams' = ViewerJoinStreams(c, sid)
  /\ ev' = Event("viewer-join", c, "none", sid, NoId)
  /\ IF sid \notin DOMAIN streams \/ ~IsOpen(streams[sid].streamer)
     THEN /\ sent' = <<Msg(c, "error", NoId, NoId, NoId, NoId)>>
          /\ readyState' = CloseConn(readyState, c)
          /\ UNCHANGED <<role, streamId, joined>>
     ELSE /\ role' = [role EXCEPT ![c] = "viewer"]
          /\ streamId' = [streamId EXCEPT ![c] = sid]
          /\ sent' = <<Msg(streams[sid].streamer, "viewer-joined", NoId, c,
                           Cardinality(DOMAIN streams'[sid].viewers), NoId),
                       Msg(c, "stream-joined", sid, NoId, NoId, NoId)>>
          /\ joined' = joined \cup {c}
          /\ UNCHANGED readyState
  /\ UNCHANGED <<variant, viewerId, uuid, used, forced>>

\* for (const [vid, viewerWs] of viewers) if (viewerWs is OPEN) viewerWs.send(..)
RECURSIVE FanOut(_, _, _, _)
FanOut(keys, viewers, type, data) ==
  IF keys = <<>> THEN <<>>
  ELSE LET v == viewers[Head(keys)]
           rest == FanOut(Tail(keys), viewers, type, data)
       IN  IF IsOpen(v)
           THEN <<Msg(v, type, NoId, NoId, NoId, data)>> \o rest
           ELSE rest

\* case "streamer-offer" / case "streamer-candidate": the stream is looked up
\* under the sender's streamId, whatever the sender's role
StreamerSend(c, type, data) ==
  /\ variant = "A"
  /\ Receive(c)
  /\ sent' = IF streamId[c] \notin DOMAIN streams THEN <<>>
             ELSE LET vs == streams[streamId[c]].viewers
                  IN  FanOut(Keys(DOMAIN vs), vs, type, data)
  /\ ev' = Event(type, c, "none", NoId, data)
  /\ UNCHANGED <<variant, readyState, role, streamId, viewerId, streams, uuid, used,
               joined, forced>>

StreamerOffer(c, data) == StreamerSend(c, "streamer-offer", data)

StreamerCandidate(c, data) == StreamerSend(c, "streamer-candidate", data)

\* ViewerSend without the readyState test on the streamer
ViewerSend_NoOpenTest(c, type, data) ==
  /\ variant = "A"
  /\ Receive(c)
  /\ sent' = IF streamId[c] \in DOMAIN streams
             THEN <<Msg(streams[streamId[c]].streamer, type, NoId, c, NoId, data)>>
             ELSE <<>>
  /\ ev' = Event(type, c, "none", NoId, data)
  /\ UNCHANGED <<variant, readyState, role, streamId, viewerId, streams, uuid, used,
               joined, forced>>

\* case "viewer-answer" / case "viewer-candidate"
ViewerSend(c, type, data) ==
  /\ variant = "A"
  /\ Receive(c)
  /\ sent' = IF streamId[c] \in DOMAIN streams /\ IsOpen(streams[streamId[c]].streamer)
             THEN <<Msg(streams[streamId[c]].streamer, type, NoId, c, NoId, data)>>
             ELSE <<>>
  /\ ev' = Event(type, c, "none", NoId, data)
  /\ UNCHANGED <<variant, readyState, role, streamId, viewerId, streams, uuid, used,
               joined, forced>>

ViewerAnswer(c, data) == ViewerSend(c, "viewer-answer", data)

ViewerCandidate(c, data) == ViewerSend(c, "viewer-candidate", data)

\* JSON.parse throws: the handler returns
Malformed(c) ==
  /\ Receive(c)
  /\ sent' = <<>>
  /\ ev' = Event("malformed", c, "none", NoId, NoId)
  /\ UNCHANGED <<variant, readyState, role, streamId, viewerId, streams, uuid, used,
               joined, forced>>

\* default: / the final console.warn: a type the relay does not know
UnknownType(c) ==
  /\ Receive(c)
  /\ sent' = <<>>
  /\ ev' = Event("unknown", c, "none", NoId, NoId)
  /\ UNCHANGED <<variant, readyState, role, streamId, viewerId, streams, uuid, used,
               joined, forced>>

\* the Node process ends: every transport is closed without any handler
\* running, and the memory of the relay is lost.  Nothing is restarted.
ProcessExit ==
  /\ readyState' = [x \in Conns |-> "CLOSED"]
  /\ role' = [x \in Conns |-> "none"]
  /\ streamId' = [x \in Conns |-> NoId]
  /\ viewerId' = [x \in Conns |-> NoId]
  /\ streams' = EmptyMap
  /\ joined' = {}
  /\ forced' = {}

\* the message is the JSON text null: JSON.parse returns null and reading
\* its type throws a TypeError.  In variant B the handler is synchronous,
\* the exception is uncaught and the process ends.  In variant A the handler
\* is async, the exception is an unhandled rejection: the runtime either
\* reports it and goes on, or ends the process.
NullMessage(c) ==
  /\ Receive(c)
  /\ sent' = <<>>
  /\ ev' = Event("null", c, "none", NoId, NoId)
  /\ \/ variant = "A"
        /\ UNCHANGED <<readyState, role, streamId, viewerId, streams, joined, forced>>
     \/ ProcessExit
  /\ UNCHANGED <<variant, uuid, used>>

\* the streamer branch of ws.on("close"): every open viewer is sent
\* stream-ended and closed
RECURSIVE EndedOut(_, _)
EndedOut(keys, viewers) ==
  IF keys = <<>> THEN <<>>
  ELSE LET v == viewers[Head(keys)]
           rest == EndedOut(Tail(keys), viewers)
       IN  IF IsOpen(v)
           THEN <<Msg(v, "stream-ended", NoId, NoId, NoId, NoId)>> \o rest
           ELSE rest

\* ws.on("close")
CloseA(c) ==
  /\ variant = "A"
  /\ readyState[c] = "CLOSING"
  /\ ev' = Event("close", c, role[c], streamId[c], NoId)
  /\ IF role[c] = "streamer" /\ streamId[c] # NoId /\ streamId[c] \in DOMAIN streams
     THEN LET vs == streams[streamId[c]].viewers IN
            /\ sent' = EndedOut(Keys(DOMAIN vs), vs)
            /\ readyState' = [x \in Conns |->
                                IF x = c THEN "CLOSED"
                                ELSE IF x \in MapValues(vs) /\ IsOpen(x) THEN "CLOSING"
                                ELSE readyState[x]]
            /\ streams' = MapDelete(streams, streamId[c])
            /\ forced' = (forced \ {c}) \cup {x \in MapValues(vs) : IsOpen(x)}
     ELSE IF role[c] = "viewer" /\ streamId[c] # NoId /\ streamId[c] \in DOMAIN streams
     THEN /\ streams' = [streams EXCEPT ![streamId[c]].viewers = MapDelete(@, c)]
          /\ sent' = IF IsOpen(streams[streamId[c]].streamer)
                     THEN <<Msg(streams[streamId[c]].streamer, "viewer-left", NoId, c,
                                Cardinality(DOMAIN streams'[streamId[c]].viewers), NoId)>>
                     ELSE <<>>
          /\ readyState' = [readyState EXCEPT ![c] = "CLOSED"]
          /\ forced' = forced \ {c}
     ELSE /\ sent' = <<>>
          /\ readyState' = [readyState EXCEPT ![c] = "CLOSED"]
          /\ forced' = forced \ {c}
          /\ UNCHANGED streams
  /\ UNCHANGED <<variant, role, streamId, viewerId, uuid, njoin, used, joined>>

\* setInterval: every stream whose streamer is not open is deleted; nothing
\* is sent and no viewer is closed
SweepA ==
  /\ variant = "A"
  /\ streams' = [s \in {x \in DOMAIN streams : IsOpen(streams[x].streamer)} |-> streams[s]]
  /\ sent' = <<>>
  /\ ev' = Event("sweep", NoId, "none", NoId, NoId)
  /\ UNCHANGED <<variant, readyState, role, streamId, viewerId, uuid, njoin, used, joined, forced>>

NextA ==
  \/ \E c \in Conns : StreamerJoin(c)
  \/ \E c \in Conns, sid \in Nameable : ViewerJoin(c, sid)
  \/ \E c \in Conns, d \in Payloads : StreamerOffer(c, d)
  \/ \E c \in Conns, d \in Payloads : StreamerCandidate(c, d)
  \/ \E c \in Conns, d \in Payloads : ViewerAnswer(c, d)
  \/ \E c \in Conns, d \in Payloads : ViewerCandidate(c, d)
  \/ \E c \in Conns : CloseA(c)
  \/ SweepA

\* =====================================================================
\* Variant B: src/server.js
\* =====================================================================

\* send(ws, data): nothing is sent unless ws is open
Send(rs, m) == IF rs[m.to] = "OPEN" THEN <<m>> ELSE <<>>

\* the role field of an identify message: "none" is a message without one
\* (any value other than the two roles is stored the same way and registers
\* nothing)
IdentifyRoles == {"streamer", "viewer", "none"}

\* type === 'identify', role === 'streamer': msg.streamId || uuidv4()
IdentifyStreamer(c, sidArg) ==
  /\ sidArg = NoId => uuid <= MaxUuid
  /\ LET id == IF sidArg # NoId THEN sidArg ELSE uuid IN
       /\ uuid' = IF sidArg # NoId THEN uuid ELSE uuid + 1
       /\ role' = [role EXCEPT ![c] = "streamer"]
       /\ streamId' = [streamId EXCEPT ![c] = id]
       /\ streams' = MapSet(streams, id, NewStream(c))
       /\ used' = used \cup {id}
       /\ joined' = joined \cup {c}
       /\ sent' = Send(readyState, Msg(c, "identified", id, NoId, NoId, NoId))
       /\ ev' = Event("identify", c, "streamer", sidArg, NoId)
  /\ UNCHANGED <<readyState, viewerId>>

\* type === 'identify', role === 'viewer'
IdentifyViewer(c, sidArg, vidArg) ==
  /\ ev' = Event("identify", c, "viewer", sidArg, NoId)
  /\ role' = [role EXCEPT ![c] = "viewer"]
  /\ IF sidArg = NoId
     THEN /\ sent' = Send(readyState, Msg(c, "error", NoId, NoId, NoId, NoId))
          /\ UNCHANGED <<streamId, viewerId, streams, uuid, joined>>
     ELSE /\ vidArg = NoId => uuid <= MaxUuid
          /\ LET vid == IF vidArg # NoId THEN vidArg ELSE uuid IN
               /\ uuid' = IF vidArg # NoId THEN uuid ELSE uuid + 1
               /\ streamId' = [streamId EXCEPT ![c] = sidArg]
               /\ viewerId' = [viewerId EXCEPT ![c] = vid]
               /\ IF sidArg \notin DOMAIN streams \/ ~IsOpen(streams[sidArg].streamer)
                  THEN /\ sent' = Send(readyState, Msg(c, "no-stream", NoId, NoId, NoId, NoId))
                       /\ UNCHANGED <<streams, joined>>
                  ELSE /\ streams' = [streams EXCEPT ![sidArg].viewers = MapSet(@, vid, c)]
                       /\ sent' = Send(readyState, Msg(streams[sidArg].streamer, "viewer-joined",
                                                       NoId, vid, NoId, NoId))
                                  \o Send(readyState, Msg(c, "identified", sidArg, vid, NoId, NoId))
                       /\ joined' = joined \cup {c}
  /\ UNCHANGED <<readyState, used>>

\* type === 'identify': the role is stored before anything is checked
Identify(c, r, sidArg, vidArg) ==
  /\ variant = "B"
  /\ ReceiveJoin(c)
  /\ CASE r = "streamer" -> vidArg = NoId /\ IdentifyStreamer(c, sidArg)
       [] r = "viewer" -> IdentifyViewer(c, sidArg, vidArg)
       [] OTHER -> /\ sidArg = NoId /\ vidArg = NoId
                   /\ role' = [role EXCEPT ![c] = r]
                   /\ sent' = <<>>
                   /\ ev' = Event("identify", c, r, NoId, NoId)
                   /\ UNCHANGED <<readyState, streamId, viewerId, streams, uuid, used, joined>>
  /\ UNCHANGED <<variant, forced>>

\* 'offer', 'answer', 'candidate' and 'leave' take the same path through the
\* routing code; two of them are enumerated
RouteTypes == {"offer", "answer"}

\* the message forwarded for a routed offer / answer / candidate / leave, as
\* a sequence of at most one message.  fromRole is msg.fromRole, msgSid is
\* msg.streamId; msg.streamIdFrom, msg.from and msg.viewerId are not set.
RouteOut(c, type, to, toViewer, toStreamer, fromRole, msgSid) ==
  LET originRole == IF role[c] # "none" THEN role[c]
                    ELSE IF fromRole # "none" THEN fromRole ELSE "unknown"
      canonical == IF streamId[c] # NoId THEN streamId[c] ELSE msgSid
      ToViewerOut(sid) ==
        IF sid \in DOMAIN streams /\ to \in DOMAIN streams[sid].viewers
        THEN Send(readyState, Msg(streams[sid].viewers[to], type, sid, NoId, NoId, NoId))
        ELSE <<>>
      ToStreamerOut(sid, from) ==
        IF sid \in DOMAIN streams
        THEN Send(readyState, Msg(streams[sid].streamer, type, sid, from, NoId, NoId))
        ELSE <<>>
  IN  IF to # NoId /\ toViewer THEN ToViewerOut(canonical)
      ELSE IF toStreamer
           THEN ToStreamerOut(IF canonical # NoId THEN canonical ELSE to, viewerId[c])
      ELSE IF originRole = "streamer" /\ to # NoId THEN ToViewerOut(canonical)
      ELSE IF originRole = "viewer" /\ ~toViewer THEN ToStreamerOut(canonical, NoId)
      ELSE <<>>

\* msg.fromRole and msg.streamId are read only when the connection has no
\* role, no streamId, of its own: they are left out of the message otherwise
FromRoles(c) == IF role[c] = "none" THEN {"streamer", "viewer", "none"} ELSE {"none"}

MsgStreamIds(c) == IF streamId[c] = NoId THEN Nameable \cup {NoId} ELSE {NoId}

\* the routed messages connection c can send: type, to, toViewer, toStreamer,
\* fromRole, streamId
RouteInputs(c) ==
  RouteTypes \X (Nameable \cup {NoId}) \X BOOLEAN \X BOOLEAN
    \X FromRoles(c) \X MsgStreamIds(c)

\* type is 'offer', 'answer', 'candidate' or 'leave': at most one message is
\* forwarded, nothing else changes
Route(c) ==
  /\ variant = "B"
  /\ Receive(c)
  /\ \E out \in {RouteOut(c, m[1], m[2], m[3], m[4], m[5], m[6]) : m \in RouteInputs(c)} :
       sent' = out
  /\ ev' = Event("route", c, "none", NoId, NoId)
  /\ UNCHANGED <<variant, readyState, role, streamId, viewerId, streams, uuid, used,
               joined, forced>>

\* for (const [vid, vws] of entry.viewers) { send(vws, stream-ended); vws.close() }
\* the result is the messages sent and the readyState of every connection
RECURSIVE EndAndClose(_, _, _, _, _)
EndAndClose(keys, viewers, sid, rs, out) ==
  IF keys = <<>> THEN [out |-> out, rs |-> rs]
  ELSE LET v == viewers[Head(keys)]
       IN  EndAndClose(Tail(keys), viewers, sid, CloseConn(rs, v),
                       out \o Send(rs, Msg(v, "stream-ended", sid, NoId, NoId, NoId)))

\* ws.on('close')
CloseB(c) ==
  /\ variant = "B"
  /\ readyState[c] = "CLOSING"
  /\ ev' = Event("close", c, role[c], streamId[c], NoId)
  /\ LET rs0 == [readyState EXCEPT ![c] = "CLOSED"] IN
     IF role[c] = "streamer" /\ streamId[c] \in DOMAIN streams
     THEN LET vs == streams[streamId[c]].viewers
              r == EndAndClose(Keys(DOMAIN vs), vs, streamId[c], rs0, <<>>)
          IN  /\ sent' = r.out
              /\ readyState' = r.rs
              /\ streams' = MapDelete(streams, streamId[c])
              /\ forced' = (forced \ {c}) \cup {x \in MapValues(vs) : rs0[x] = "OPEN"}
     ELSE IF role[c] = "viewer" /\ streamId[c] \in DOMAIN streams
     THEN /\ streams' = [streams EXCEPT ![streamId[c]].viewers = MapDelete(@, viewerId[c])]
          /\ sent' = Send(rs0, Msg(streams[streamId[c]].streamer, "viewer-left",
                                   NoId, viewerId[c], NoId, NoId))
          /\ readyState' = rs0
          /\ forced' = forced \ {c}
     ELSE /\ sent' = <<>>
          /\ readyState' = rs0
          /\ forced' = forced \ {c}
          /\ UNCHANGED streams
  /\ UNCHANGED <<variant, role, streamId, viewerId, uuid, njoin, used, joined>>

\* entry.viewers.forEach((vws) => send(vws, stream-ended)) for one dead entry
RECURSIVE EndedB(_, _, _)
EndedB(keys, viewers, sid) ==
  IF keys = <<>> THEN <<>>
  ELSE Send(readyState, Msg(viewers[Head(keys)], "stream-ended", sid, NoId, NoId, NoId))
       \o EndedB(Tail(keys), viewers, sid)

RECURSIVE SweepOut(_)
SweepOut(sids) ==
  IF sids = <<>> THEN <<>>
  ELSE LET e == streams[Head(sids)]
       IN  (IF IsOpen(e.streamer) THEN <<>>
            ELSE EndedB(Keys(DOMAIN e.viewers), e.viewers, Head(sids)))
           \o SweepOut(Tail(sids))

\* setInterval: the viewers of a dead entry are notified, not closed
SweepB ==
  /\ variant = "B"
  /\ sent' = SweepOut(Keys(DOMAIN streams))
  /\ streams' = [s \in {x \in DOMAIN streams : IsOpen(streams[x].streamer)} |-> streams[s]]
  /\ ev' = Event("sweep", NoId, "none", NoId, NoId)
  /\ UNCHANGED <<variant, readyState, role, streamId, viewerId, uuid, njoin, used, joined, forced>>

NextB ==
  \/ \E c \in Conns, r \in IdentifyRoles, sid \in Nameable \cup {NoId},
        vid \in ClientIds \cup {NoId} : Identify(c, r, sid, vid)
  \/ \E c \in Conns : Route(c)
  \/ \E c \in Conns : CloseB(c)
  \/ SweepB

\* events both variants share
NextShared ==
  \/ \E c \in Conns : Connect(c)
  \/ \E c \in Conns : TransportDrop(c)
  \/ \E c \in Conns : Malformed(c)
  \/ \E c \in Conns : UnknownType(c)
  \/ \E c \in Conns : NullMessage(c)

Next == NextShared \/ NextA \/ NextB

\* both variants
Spec == Init /\ [][Next]_vars

\* src/unnamed/part_000 alone
InitA == Init /\ variant = "A"

SpecA == InitA /\ [][NextShared \/ NextA]_vars

\* src/server.js alone
InitB == Init /\ variant = "B"

SpecB == InitB /\ [][NextShared \/ NextB]_vars

\* =====================================================================
\* Properties
\* =====================================================================

\* the number of messages of the given type that seq delivers to connection to
CountTo(seq, to, type) ==
  Cardinality({i \in DOMAIN seq : seq[i].to = to /\ seq[i].type = type})

\* the step handles a viewer join: viewer-join (A), identify role=viewer (B)
IsViewerJoin(e) ==
  \/ e.kind = "viewer-join"
  \/ e.kind = "identify" /\ e.role = "viewer"

\* C1: (variant A) when the close event of a connection c is handled, every
\* session whose streamer is c is gone from the registry afterwards, and
\* every open viewer registered in such a session is sent exactly one
\* stream-ended by that handler.
C1_StreamerCloseTearsDown ==
  [][\A c \in Conns :
       (ev'.kind = "close" /\ ev'.conn = c) =>
         \A s \in DOMAIN streams :
           streams[s].streamer = c =>
             /\ s \notin DOMAIN streams'
             /\ \A v \in MapValues(streams[s].viewers) :
                  IsOpen(v) => CountTo(sent', v, "stream-ended") = 1]_vars

\* C2: (both variants) a sweep tick that finds a session whose streamer's
\* transport is not open, its close event not handled yet, removes the
\* session and leaves none of the session's viewers with an open transport.
C2_SweepTearsDown ==
  [][ev'.kind = "sweep" =>
       \A s \in DOMAIN streams :
         readyState[streams[s].streamer] = "CLOSING" =>
           /\ s \notin DOMAIN streams'
           /\ \A v \in MapValues(streams[s].viewers) : readyState'[v] # "OPEN"]_vars

\* C3: (variant A) a streamer-offer from the connection the registry holds
\* as the streamer of session s is delivered exactly once to every open
\* connection in s's viewers map, to no connection whose transport is not
\* open, and changes neither the registry nor any role.
C3_OfferFanOut ==
  [][\A c \in Conns, s \in DOMAIN streams :
       (ev'.kind = "streamer-offer" /\ ev'.conn = c /\ streams[s].streamer = c) =>
         /\ \A v \in MapValues(streams[s].viewers) :
              IsOpen(v) => CountTo(sent', v, "streamer-offer") = 1
         /\ \A i \in DOMAIN sent' : IsOpen(sent'[i].to)
         /\ streams' = streams
         /\ role' = role]_vars

\* C3 for the one session the sender currently points at (streamId[c] = s):
\* the fan-out of that session is exact.  This is the part of C3 the
\* handler does deliver; it holds.
C3_CurrentSessionFanOut ==
  [][\A c \in Conns, s \in DOMAIN streams :
       (/\ ev'.kind = "streamer-offer" /\ ev'.conn = c
        /\ streams[s].streamer = c /\ streamId[c] = s) =>
         /\ \A v \in MapValues(streams[s].viewers) :
              IsOpen(v) => CountTo(sent', v, "streamer-offer") = 1
         /\ \A i \in DOMAIN sent' : IsOpen(sent'[i].to)
         /\ streams' = streams
         /\ role' = role]_vars

\* C4: (variant A) when the close event of a connection v registered in the
\* viewers map of session s is handled while s's streamer is open, s stays
\* in the registry, v is no longer in s's viewers map, and the streamer is
\* sent exactly one viewer-left, with viewerId v and viewerCount the size of
\* s's viewers map after the removal.
C4_ViewerCloseNotifies ==
  [][\A v \in Conns, s \in DOMAIN streams :
       (/\ ev'.kind = "close" /\ ev'.conn = v
        /\ v \in MapValues(streams[s].viewers)
        /\ IsOpen(streams[s].streamer)) =>
         /\ s \in DOMAIN streams'
         /\ v \notin MapValues(streams'[s].viewers)
         /\ CountTo(sent', streams[s].streamer, "viewer-left") = 1
         /\ \A i \in DOMAIN sent' :
              sent'[i].type = "viewer-left" =>
                /\ sent'[i].viewerId = v
                /\ sent'[i].viewerCount = Cardinality(DOMAIN streams'[s].viewers)]_vars

\* C4 for a connection whose role is Viewer and whose streamId is s: the
\* part of C4 the handler does deliver; it holds.
C4_CurrentSessionClose ==
  [][\A v \in Conns, s \in DOMAIN streams :
       (/\ ev'.kind = "close" /\ ev'.conn = v
        /\ role[v] = "viewer" /\ streamId[v] = s
        /\ v \in MapValues(streams[s].viewers)
        /\ IsOpen(streams[s].streamer)) =>
         /\ s \in DOMAIN streams'
         /\ v \notin MapValues(streams'[s].viewers)
         /\ CountTo(sent', streams[s].streamer, "viewer-left") = 1
         /\ \A i \in DOMAIN sent' :
              sent'[i].type = "viewer-left" =>
                /\ sent'[i].viewerId = v
                /\ sent'[i].viewerCount = Cardinality(DOMAIN streams'[s].viewers)]_vars

\* C5: (both variants) a viewer join naming a session id that is not in the
\* registry sends the joining connection an error or no-stream reply and
\* leaves the registry as it was.
C5_UnknownSessionJoin ==
  [][(IsViewerJoin(ev') /\ ev'.streamId \notin DOMAIN streams) =>
       /\ \E i \in DOMAIN sent' :
            /\ sent'[i].to = ev'.conn
            /\ sent'[i].type \in {"error", "no-stream"}
       /\ streams' = streams]_vars

\* a viewer join that named an unknown session has just been answered with
\* an error, while another session is registered
C5_Witness ==
  /\ IsViewerJoin(ev)
  /\ ev.streamId # NoId
  /\ ev.streamId \notin DOMAIN streams
  /\ DOMAIN streams # {}
  /\ \E i \in DOMAIN sent : sent[i].to = ev.conn /\ sent[i].type \in {"error", "no-stream"}

\* C6: (both variants) a viewer join by an Unassigned connection that names
\* a session that is absent, or whose streamer's transport is not open, is
\* answered with an error reply, the connection is closed, its role stays
\* Unassigned and its sessionId null, and the registry is unchanged.
C6_FailedJoinChangesNothing ==
  [][\A c \in Conns :
       (/\ IsViewerJoin(ev') /\ ev'.conn = c
        /\ role[c] = "none"
        /\ ev'.streamId # NoId
        /\ \/ ev'.streamId \notin DOMAIN streams
           \/ ~IsOpen(streams[ev'.streamId].streamer)) =>
         /\ \E i \in DOMAIN sent' :
              sent'[i].to = c /\ sent'[i].type \in {"error", "no-stream"}
         /\ readyState'[c] # "OPEN"
         /\ role'[c] = "none"
         /\ streamId'[c] = NoId
         /\ streams' = streams]_vars

\* C7: (both variants) at most one open connection has role Streamer with a
\* given sessionId, and a registry entry under that id refers to it.
C7_OneStreamerPerSession ==
  \A c \in Conns :
    (IsOpen(c) /\ role[c] = "streamer" /\ streamId[c] # NoId) =>
      /\ \A d \in Conns :
           (IsOpen(d) /\ role[d] = "streamer" /\ streamId[d] = streamId[c]) => d = c
      /\ streamId[c] \in DOMAIN streams => streams[streamId[c]].streamer = c

\* C8: (both variants) once a connection's role is Streamer or Viewer, no
\* step changes its role or its sessionId.
C8_RoleSetOnce ==
  [][\A c \in Conns :
       role[c] \in {"streamer", "viewer"} =>
         role'[c] = role[c] /\ streamId'[c] = streamId[c]]_vars

\* C9: (variant A) every connection in the viewers map of session s has role
\* Viewer and sessionId s.
C9_ViewersBackPointer ==
  \A s \in DOMAIN streams :
    \A v \in MapValues(streams[s].viewers) :
      role[v] = "viewer" /\ streamId[v] = s

\* C10: (both variants) no step deletes the registry entry of a session
\* whose streamer's transport is open, or puts another streamer in it.
C10_OpenSessionKept ==
  [][\A s \in DOMAIN streams :
       IsOpen(streams[s].streamer) =>
         /\ s \in DOMAIN streams'
         /\ streams'[s].streamer = streams[s].streamer]_vars

\* the step handles a streamer join: streamer-join (A), identify
\* role=streamer (B)
IsStreamerJoin(e) ==
  \/ e.kind = "streamer-join"
  \/ e.kind = "identify" /\ e.role = "streamer"

\* C11: (both variants) the session a streamer join creates is stored under
\* an identifier the registry has never held before, neither one that is
\* present now nor one that was removed.
C11_FreshSessionId ==
  [][IsStreamerJoin(ev') => streamId'[ev'.conn] \notin used]_vars

\* C11 in variant A alone, where the identifier comes from uuidv4(): holds.
C11_FreshSessionIdA ==
  [][ev'.kind = "streamer-join" => streamId'[ev'.conn] \notin used]_vars

\* C12: (variant A) a streamer-offer or streamer-candidate from a connection
\* whose role is not Streamer, and a viewer-answer or viewer-candidate from a
\* connection whose role is not Viewer, is delivered to nobody.
C12_RoleDeterminesFanOut ==
  [][\A c \in Conns :
       ev'.conn = c =>
         /\ (ev'.kind \in {"streamer-offer", "streamer-candidate"} /\ role[c] # "streamer")
              => sent' = <<>>
         /\ (ev'.kind \in {"viewer-answer", "viewer-candidate"} /\ role[c] # "viewer")
              => sent' = <<>>]_vars

\* C12 for a connection that never joined: with no sessionId nothing is
\* looked up and nothing is delivered.  Holds.
C12_UnassignedSendsNothing ==
  [][\A c \in Conns :
       (/\ ev'.conn = c /\ role[c] = "none"
        /\ ev'.kind \in {"streamer-offer", "streamer-candidate",
                         "viewer-answer", "viewer-candidate"})
         => sent' = <<>>]_vars

\* C13: (variant A) a viewer-answer or viewer-candidate from a connection c
\* whose role is Viewer and whose sessionId is s: when s is in the registry
\* and its streamer's transport is open, the handler sends exactly one
\* message, to s's streamer, of the same type, with viewerId c and the
\* payload of the message; otherwise it sends nothing.  The registry and
\* all roles stay as they were.
C13_ViewerForward ==
  [][\A c \in Conns :
       (/\ ev'.kind \in {"viewer-answer", "viewer-candidate"}
        /\ ev'.conn = c
        /\ role[c] = "viewer") =>
         /\ IF streamId[c] \in DOMAIN streams /\ IsOpen(streams[streamId[c]].streamer)
            THEN sent' = <<Msg(streams[streamId[c]].streamer, ev'.kind, NoId, c,
                               NoId, ev'.data)>>
            ELSE sent' = <<>>
         /\ streams' = streams
         /\ role' = role]_vars

\* a viewer's answer or candidate has just been forwarded to the open
\* streamer of its session, while another connection exists
C13_Witness ==
  /\ ev.kind \in {"viewer-answer", "viewer-candidate"}
  /\ role[ev.conn] = "viewer"
  /\ streamId[ev.conn] \in DOMAIN streams
  /\ IsOpen(streams[streamId[ev.conn]].streamer)
  /\ streams[streamId[ev.conn]].streamer # ev.conn
  /\ Len(sent) = 1
  /\ sent[1].to = streams[streamId[ev.conn]].streamer
  /\ sent[1].viewerId = ev.conn
  /\ sent[1].data = ev.data
  /\ ev.data \in Payloads

\* a viewer's answer or candidate has just been dropped: the streamer of its
\* session is registered and its transport is not open
C13_WitnessDropped ==
  /\ ev.kind \in {"viewer-answer", "viewer-candidate"}
  /\ role[ev.conn] = "viewer"
  /\ streamId[ev.conn] \in DOMAIN streams
  /\ ~IsOpen(streams[streamId[ev.conn]].streamer)
  /\ sent = <<>>

\* the step handles a viewer join that succeeds: the session named is in the
\* registry and its streamer's transport is open
JoinSucceeds(e) ==
  /\ IsViewerJoin(e)
  /\ e.streamId \in DOMAIN streams
  /\ IsOpen(streams[e.streamId].streamer)

\* what C14 asks of the handler of a successful viewer join of session s by
\* connection c: a viewer-joined to s's streamer, later a confirmation to c
\* that carries s and the same viewerId, which is c's key in s's viewers map
NotifiedThenConfirmed(c, s, out, reg) ==
  \E i, j \in DOMAIN out :
    /\ i < j
    /\ out[i].to = streams[s].streamer
    /\ out[i].type = "viewer-joined"
    /\ out[i].viewerId # NoId
    /\ out[j].to = c
    /\ out[j].type \in {"stream-joined", "identified"}
    /\ out[j].streamId = s
    /\ out[j].viewerId = out[i].viewerId
    /\ s \in DOMAIN reg
    /\ out[i].viewerId \in DOMAIN reg[s].viewers
    /\ reg[s].viewers[out[i].viewerId] = c

\* C14: (both variants) on a successful viewer join of session s the
\* streamer of s is sent viewer-joined with a viewerId V, the joining
\* connection is sent afterwards a confirmation that carries s and the same
\* V, and V is the key under which the connection is stored in s's viewers
\* map.
C14_NotifiedThenConfirmed ==
  [][JoinSucceeds(ev') =>
       NotifiedThenConfirmed(ev'.conn, ev'.streamId, sent', streams')]_vars

\* C14 in variant B alone: holds.
C14_NotifiedThenConfirmedB ==
  [][(variant = "B" /\ JoinSucceeds(ev')) =>
       NotifiedThenConfirmed(ev'.conn, ev'.streamId, sent', streams')]_vars

\* C14 in variant A without the viewerId of the confirmation: the streamer
\* is notified first with the key of the viewers map, the viewer is
\* confirmed with the session id.  Holds.
C14_OrderA ==
  [][(variant = "A" /\ JoinSucceeds(ev')) =>
       /\ Len(sent') = 2
       /\ sent'[1].to = streams[ev'.streamId].streamer
       /\ sent'[1].type = "viewer-joined"
       /\ streams'[ev'.streamId].viewers[sent'[1].viewerId] = ev'.conn
       /\ sent'[2].to = ev'.conn
       /\ sent'[2].type = "stream-joined"
       /\ sent'[2].streamId = ev'.streamId]_vars

\* C15: (both variants) a message that is not JSON, or that is JSON without
\* a recognized type, makes the relay send nothing and change nothing: the
\* roles, the sessionIds, the registry and every transport, the sender's
\* included, are as before.
C15_IgnoredMessage ==
  [][ev'.kind \in {"malformed", "unknown", "null"} =>
       /\ sent' = <<>>
       /\ role' = role
       /\ streamId' = streamId
       /\ viewerId' = viewerId
       /\ streams' = streams
       /\ readyState' = readyState
       /\ readyState'[ev'.conn] = "OPEN"]_vars

\* C15 for text that JSON.parse rejects and for a JSON object whose type is
\* not recognized: holds.
C15_IgnoredObject ==
  [][ev'.kind \in {"malformed", "unknown"} =>
       /\ sent' = <<>>
       /\ role' = role
       /\ streamId' = streamId
       /\ viewerId' = viewerId
       /\ streams' = streams
       /\ readyState' = readyState
       /\ readyState'[ev'.conn] = "OPEN"]_vars

\* C16: (both variants) the close event of a connection that has never
\* completed a join, a connection whose viewer join was refused included,
\* sends nothing and leaves the registry, every viewers map included, as it
\* was.
C16_UnassignedCloseIsNoOp ==
  [][\A c \in Conns :
       (ev'.kind = "close" /\ ev'.conn = c /\ c \notin joined) =>
         /\ sent' = <<>>
         /\ streams' = streams]_vars

\* C16 for a connection whose role field was never written: holds in both
\* variants.
C16_NoRoleCloseIsNoOp ==
  [][\A c \in Conns :
       (ev'.kind = "close" /\ ev'.conn = c /\ role[c] = "none") =>
         /\ sent' = <<>>
         /\ streams' = streams]_vars

\* the four signaling messages of variant A
SignalKinds ==
  {"streamer-offer", "streamer-candidate", "viewer-answer", "viewer-candidate"}

\* C17: (variant A) a signaling message from a connection whose sessionId is
\* s is delivered only to connections whose sessionId is s, and an offer or
\* streamer candidate from a streamer reaches only connections whose own
\* answers would be forwarded to that streamer.
C17_SessionIsolation ==
  [][\A c \in Conns :
       (ev'.conn = c /\ ev'.kind \in SignalKinds) =>
         \A i \in DOMAIN sent' :
           /\ streamId[sent'[i].to] = streamId[c]
           /\ (ev'.kind \in {"streamer-offer", "streamer-candidate"} /\ role[c] = "streamer") =>
                /\ streamId[sent'[i].to] \in DOMAIN streams
                /\ streams[streamId[sent'[i].to]].streamer = c]_vars

\* C18: (variant A) no viewers map holds a connection whose close event has
\* been handled.
C18_NoStaleViewers ==
  variant = "A" =>
    \A s \in DOMAIN streams :
      \A v \in MapValues(streams[s].viewers) : readyState[v] # "CLOSED"

\* C19: (variant A) the connection stored as the streamer of session s has
\* role Streamer and sessionId s.
C19_StreamerBackPointer ==
  variant = "A" =>
    \A s \in DOMAIN streams :
      /\ role[streams[s].streamer] = "streamer"
      /\ streamId[streams[s].streamer] = s

\* C20: (variant A) the close event of a connection that a streamer's close
\* handler closed while tearing down the session it was a viewer of sends no
\* message to anyone and leaves the registry as it was.
C20_QuietCascade ==
  [][\A c \in Conns :
       (ev'.kind = "close" /\ ev'.conn = c /\ c \in forced) =>
         /\ sent' = <<>>
         /\ streams' = streams]_vars

\* C20 for a viewer whose sessionId is still the session that was torn down:
\* the lookup under that id finds nothing and the close handler is quiet.
\* Holds.
C20_QuietCascadeSameSession ==
  [][\A c \in Conns :
       (/\ ev'.kind = "close" /\ ev'.conn = c /\ c \in forced
        /\ role[c] = "viewer" /\ streamId[c] \notin DOMAIN streams) =>
         /\ sent' = <<>>
         /\ streams' = streams]_vars

====
